---- MODULE Spec2Model ----
(***************************************************************************)
(* Equilibration-based initialisation (opm/core/simulator/                 *)
(* initStateEquil.hpp): the saturation resolver phaseSaturations and the   *)
(* driver PhasePressureSaturationComputer, as state machines.              *)
(*                                                                         *)
(* Numbers are fixed point.  A saturation s stands for s/Scale, so that    *)
(* "1.0" of the code is Scale here; depths and pressures are integers in   *)
(* model units.  Vectors are sequences: entry i of the code (0-based) is   *)
(* entry i+1 here.  Cell ids and region ids stay 0-based as in the code.   *)
(***************************************************************************)
EXTENDS Integers, Sequences, FiniteSets, TLC

\* ------------------------------------------------------------------ bounds
\* Saturation resolution: the code's 1.0 is Scale.
Scale == 2
\* Largest number of cells of a region handed to phaseSaturations on its own.
MaxRegCells == 2
\* Largest grid (number_of_cells) and largest EQUIL table of a deck.
MaxCells == 3
MaxRecs == 2

\* ------------------------------------------------------------------ helpers
Range(s) == {s[i] : i \in 1..Len(s)}

SetMax(S) == CHOOSE x \in S : \A y \in S : y <= x

Abs(x) == IF x < 0 THEN -x ELSE x

\* All sequences over S of length n.
SeqsOfLen(S, n) == [1..n -> S]

\* ------------------------------------------------------ phases, PhaseUsage
\* BlackoilPhases: Aqua (water), Liquid (oil), Vapour (gas), in this order.
PhaseOrder == <<"Aqua", "Liquid", "Vapour">>

PhaseSet == Range(PhaseOrder)

PhaseIdx(ph) == CHOOSE i \in 1..Len(PhaseOrder) : PhaseOrder[i] = ph

\* A PhaseUsage is the function phase_used; phase_pos follows from it: the
\* compact (0-based) position of an active phase among the active phases.
PhaseUsages == {u \in [PhaseSet -> BOOLEAN] : \E ph \in PhaseSet : u[ph]}

NumPhases(pu) == Cardinality({ph \in PhaseSet : pu[ph]})

PhasePos(pu, ph) ==
    Cardinality({q \in PhaseSet : pu[q] /\ PhaseIdx(q) < PhaseIdx(ph)})

\* The active phase stored at compact position pos.
PhaseAt(pu, pos) == CHOOSE ph \in PhaseSet : pu[ph] /\ PhasePos(pu, ph) = pos

\* ------------------------------------------------ property model (props)
\* A property model is a record [swco |-> k, pu |-> phase usage]: k is the
\* connate water saturation of the cells of the second saturation region
\* (odd cell ids); cells of the first (even ids) have none.  The two
\* regions share one gas table, which ends at the gas saturation 1 - k; the
\* oil range follows from the water range of the cell.
PropsSet == [swco : 0..1, pu : PhaseUsages]

\* props.numPhases(), props.phaseUsage()
numPhases(props) == NumPhases(props.pu)

phaseUsage(props) == props.pu

SatRegion(cell) == cell % 2

\* props.satRange(1, &cell, smin, smax)
SMin(props, ph, cell) ==
    IF ph = "Aqua" /\ SatRegion(cell) = 1 THEN props.swco ELSE 0

SMax(props, ph, cell) ==
    IF ph = "Aqua" THEN Scale
    ELSE IF ph = "Vapour" THEN Scale - props.swco
    ELSE IF props.pu["Aqua"] THEN Scale - SMin(props, "Aqua", cell)
    ELSE Scale

\* Capillary pressure curves, one pressure unit per saturation unit:
\* oil-water pc is decreasing in the water saturation and vanishes at
\* s_w = 1; gas-oil pc is increasing in the gas saturation and vanishes at
\* s_g = 0.
CapPress(props, ph, cell, s) ==
    IF ph = "Aqua" THEN Scale - s
    ELSE IF ph = "Vapour" THEN s
    ELSE 0

\* The bracketed root finder on the saturation grid lo..hi, given the
\* residuals res[s]: the saturation whose residual is closest to zero (the
\* smallest such).
GridRoot(res, lo, hi) ==
    CHOOSE s \in lo..hi :
        /\ \A t \in lo..hi : Abs(res[s]) <= Abs(res[t])
        /\ \A t \in lo..hi : Abs(res[t]) = Abs(res[s]) => s <= t

\* satFromPc(props, phase, cell, target_pc, increasing): the saturation s of
\* the phase with pc(s) = target_pc, clamped to [smin, smax].
satFromPc(props, ph, cell, target_pc, increasing) ==
    LET smin == SMin(props, ph, cell)
        smax == SMax(props, ph, cell)
        s0 == IF increasing THEN smax ELSE smin
        s1 == IF increasing THEN smin ELSE smax
        f(s) == CapPress(props, ph, cell, s) - target_pc
    IN  IF f(s0) <= 0 THEN s0
        ELSE IF f(s1) > 0 THEN s1
        ELSE GridRoot([s \in smin..smax |-> f(s)], smin, smax)

\* satFromSumOfPcs(props, phase1, phase2, cell, target_pc): the saturation s
\* of phase1 with pc1(s) + pc2(1 - s) = target_pc, clamped to phase1's range.
satFromSumOfPcs(props, ph1, ph2, cell, target_pc) ==
    LET smin == SMin(props, ph1, cell)
        smax == SMax(props, ph1, cell)
        f(s) == CapPress(props, ph1, cell, s)
                  + CapPress(props, ph2, cell, Scale - s) - target_pc
    IN  IF f(smin) <= 0 THEN smin
        ELSE IF f(smax) > 0 THEN smax
        ELSE GridRoot([s \in smin..smax |-> f(s)], smin, smax)

\* --------------------------------------------- EquilRecord, EquilReg
\* An EquilRecord is [main |-> [depth, press], woc |-> [depth, press],
\* goc |-> [depth, press]]; an equilibration region (EquilReg) binds a
\* record, the representative cell of its density calculator and the
\* phase usage.
\* Variant of Datum: the depth of the water-oil contact.
DatumAtContact(reg) == reg.rec.woc.depth

Datum(reg) == reg.rec.main.depth

Zwoc(reg) == reg.rec.woc.depth

Zgoc(reg) == reg.rec.goc.depth

EqReg(rec, repcell, pu) == [rec |-> rec, repcell |-> repcell, pu |-> pu]

\* -------------------------------------------------- phaseSaturations
\* mat[pos][local_index] := v, both 0-based in the code.
Store(mat, pos, li, v) == [mat EXCEPT ![pos + 1][li + 1] = v]

Call(fn, ph, cell, target, increasing) ==
    [fn |-> fn, phase |-> ph, cell |-> cell, target |-> target,
     increasing |-> increasing]

\* Variant of PressAt: the local index is not advanced.
PressAtFirst(phase_pressures, pos, li) == phase_pressures[pos + 1][1]

\* phase_pressures[pos][local_index], both 0-based in the code.
PressAt(phase_pressures, pos, li) == phase_pressures[pos + 1][li + 1]

\* pcov: oil pressure minus water pressure.
PcOW(phase_pressures, pu, li) ==
    PressAt(phase_pressures, PhasePos(pu, "Liquid"), li)
      - PressAt(phase_pressures, PhasePos(pu, "Aqua"), li)

\* Variant of PcGO: oil pressure minus gas pressure.
PcGOReversed(phase_pressures, pu, li) ==
    PressAt(phase_pressures, PhasePos(pu, "Liquid"), li)
      - PressAt(phase_pressures, PhasePos(pu, "Vapour"), li)

\* pcog: gas pressure minus oil pressure.
PcGO(phase_pressures, pu, li) ==
    PressAt(phase_pressures, PhasePos(pu, "Vapour"), li)
      - PressAt(phase_pressures, PhasePos(pu, "Liquid"), li)

\* Variant of PcGW: the oil-water difference.
PcGWOilWater(phase_pressures, pu, li) ==
    PressAt(phase_pressures, PhasePos(pu, "Liquid"), li)
      - PressAt(phase_pressures, PhasePos(pu, "Aqua"), li)

\* pcgw: gas pressure minus water pressure.
PcGW(phase_pressures, pu, li) ==
    PressAt(phase_pressures, PhasePos(pu, "Vapour"), li)
      - PressAt(phase_pressures, PhasePos(pu, "Aqua"), li)

\* The test of the overlap correction: gas && water && (sg + sw > 1.0).
\* Variant of Overlap: a sum of exactly 1 counts as an overlap too.
OverlapOrTouching(water, gas, sw, sg) == gas /\ water /\ (sg + sw >= Scale)

\* gas && water && (sg + sw > 1.0)
Overlap(water, gas, sw, sg) == gas /\ water /\ (sg + sw > Scale)

\* Variant of OilClosure: the gas saturation is left out.
OilClosureWaterOnly(sw, sg) == Scale - sw

\* The oil saturation: 1.0 - sw - sg.
OilClosure(sw, sg) == Scale - sw - sg

\* One pass of the cell loop: acc is [sat, calls], the saturation matrix so
\* far and the capillary-pressure inversions called so far.
SatLoopBody(reg, props, phase_pressures, local_index, cell, acc) ==
    LET pu       == reg.pu
        water    == pu["Aqua"]
        gas      == pu["Vapour"]
        oilpos   == PhasePos(pu, "Liquid")
        waterpos == PhasePos(pu, "Aqua")
        gaspos   == PhasePos(pu, "Vapour")
        pcov     == PcOW(phase_pressures, pu, local_index)
        sw1      == IF water THEN satFromPc(props, "Aqua", cell, pcov, FALSE)
                    ELSE 0
        a1       == IF water
                    THEN [sat   |-> Store(acc.sat, waterpos, local_index, sw1),
                          calls |-> Append(acc.calls,
                                     Call("satFromPc", "Aqua", cell, pcov, FALSE))]
                    ELSE acc
        pcog     == PcGO(phase_pressures, pu, local_index)
        sg1      == IF gas THEN satFromPc(props, "Vapour", cell, pcog, TRUE)
                    ELSE 0
        a2       == IF gas
                    THEN [sat   |-> Store(a1.sat, gaspos, local_index, sg1),
                          calls |-> Append(a1.calls,
                                     Call("satFromPc", "Vapour", cell, pcog, TRUE))]
                    ELSE a1
        overlap  == Overlap(water, gas, sw1, sg1)
        pcgw     == PcGW(phase_pressures, pu, local_index)
        sw       == IF overlap
                    THEN satFromSumOfPcs(props, "Aqua", "Vapour", cell, pcgw)
                    ELSE sw1
        sg       == IF overlap THEN Scale - sw ELSE sg1
        a3       == IF overlap
                    THEN [sat   |-> Store(Store(a2.sat, waterpos, local_index, sw),
                                          gaspos, local_index, sg),
                          calls |-> Append(a2.calls,
                                     Call("satFromSumOfPcs", "Aqua", cell, pcgw, FALSE))]
                    ELSE a2
    IN  [sat   |-> Store(a3.sat, oilpos, local_index, OilClosure(sw, sg)),
         calls |-> a3.calls]

RECURSIVE SatLoop(_, _, _, _, _, _)
SatLoop(reg, cells, props, phase_pressures, local_index, acc) ==
    IF local_index >= Len(cells) THEN acc
    ELSE SatLoop(reg, cells, props, phase_pressures, local_index + 1,
                 SatLoopBody(reg, props, phase_pressures, local_index,
                             cells[local_index + 1], acc))

Threw(what) == [status |-> "threw", what |-> what, sat |-> <<>>, calls |-> <<>>]

\* Variant of DatumOutsideOilZone: a datum at a contact is rejected too.
DatumOutsideOrAtContact(reg) ==
    (Zgoc(reg) >= Datum(reg)) \/ (Datum(reg) >= Zwoc(reg))

\* (zgoc > z0) || (z0 > zwoc): the datum is not in the oil zone.
DatumOutsideOilZone(reg) ==
    (Zgoc(reg) > Datum(reg)) \/ (Datum(reg) > Zwoc(reg))

\* Variant of OilInactive: oil without water and gas is rejected too.
OilInactiveOrAlone(reg) ==
    ~reg.pu["Liquid"] \/ (~reg.pu["Aqua"] /\ ~reg.pu["Vapour"])

\* Variant of OilInactive: only the absence of both oil and gas is rejected.
NeitherOilNorGas(reg) == ~reg.pu["Liquid"] /\ ~reg.pu["Vapour"]

\* !reg.phaseUsage().phase_used[BlackoilPhases::Liquid]
OilInactive(reg) == ~reg.pu["Liquid"]

\* phaseSaturations(reg, cells, props, phase_pressures): the two
\* precondition checks, then the cell loop over a copy of the pressures.
phaseSaturations(reg, cells, props, phase_pressures) ==
    IF DatumOutsideOilZone(reg)
    THEN Threw("datum")
    ELSE IF OilInactive(reg)
    THEN Threw("no_oil")
    ELSE LET res == SatLoop(reg, cells, props, phase_pressures, 0,
                            [sat |-> phase_pressures, calls |-> <<>>])
         IN  [status |-> "returned", what |-> "", sat |-> res.sat,
              calls |-> res.calls]

\* ------------------------------------------------------------ the deck
\* An EQUIL line of the deck (EquilLine).
Line(zd, pd, zw, pcw, zg, pcg) ==
    [datum_depth_ |-> zd, datum_depth_pressure_ |-> pd,
     water_oil_contact_depth_ |-> zw, oil_water_cap_pressure_ |-> pcw,
     gas_oil_contact_depth_ |-> zg, gas_oil_cap_pressure_ |-> pcg]

\* The EQUIL lines decks are drawn from: a thin oil zone with a gas-oil
\* capillary pressure at the contact (the transition zones overlap), a wide
\* oil zone, a datum above the gas-oil contact and a datum below the
\* water-oil contact (both outside the oil zone).
LineSet ==
    { Line(1, 10, 1, 0, 1, 1),
      Line(1, 10, 2, 0, 0, 0),
      Line(1, 10, 2, 0, 2, 0),
      Line(2, 10, 1, 0, 0, 0) }

\* Variant of RecordOfLine: the two contacts change places.
RecordOfLineContactsSwapped(rec) ==
    [main |-> [depth |-> rec.datum_depth_,
               press |-> rec.datum_depth_pressure_],
     woc  |-> [depth |-> rec.gas_oil_contact_depth_,
               press |-> rec.gas_oil_cap_pressure_],
     goc  |-> [depth |-> rec.water_oil_contact_depth_,
               press |-> rec.oil_water_cap_pressure_]]

\* DeckDependent::getEquil, the body of its loop: one EquilRecord from one
\* EquilLine.
RecordOfLine(rec) ==
    [main |-> [depth |-> rec.datum_depth_,
               press |-> rec.datum_depth_pressure_],
     woc  |-> [depth |-> rec.water_oil_contact_depth_,
               press |-> rec.oil_water_cap_pressure_],
     goc  |-> [depth |-> rec.gas_oil_contact_depth_,
               press |-> rec.gas_oil_cap_pressure_]]

\* DeckDependent::getEquil on a deck that has the EQUIL field.
getEquil(dk) == [r \in 1..Len(dk.EQUIL) |-> RecordOfLine(dk.EQUIL[r])]

\* Variant of equilnum: the default region is 1.
equilnumOneBased(dk, grid) ==
    IF dk.hasEQLNUM THEN dk.EQLNUM
    ELSE [c \in 1..grid.number_of_cells |-> 1]

\* DeckDependent::equilnum
equilnum(dk, grid) ==
    IF dk.hasEQLNUM THEN dk.EQLNUM
    ELSE [c \in 1..grid.number_of_cells |-> 0]

\* ------------------------------------------------------ RegionMapping
\* numRegions(): the region ids are 0..max.
numRegions(eqlmap) == SetMax(Range(eqlmap)) + 1

RECURSIVE CellsFrom(_, _, _)
CellsFrom(eqlmap, r, c) ==
    IF c >= Len(eqlmap) THEN <<>>
    ELSE IF eqlmap[c + 1] = r THEN <<c>> \o CellsFrom(eqlmap, r, c + 1)
    ELSE CellsFrom(eqlmap, r, c + 1)

\* cells(r): the cells of region r, in increasing order.
Cells(eqlmap, r) == CellsFrom(eqlmap, r, 0)

\* ------------------------------------------------------ phasePressures
\* Depth of the centre of a cell: the cells form one column.
CellDepth(grid, c) == c

\* DensityCalculator (incompressible) times gravity, per depth unit: it
\* depends on the PVT region of the representative cell only.
PvtRegion(cell) == cell % 2

RhoG(ph, repcell) ==
    IF ph = "Aqua" THEN 3 + PvtRegion(repcell)
    ELSE IF ph = "Liquid" THEN 2
    ELSE 1

\* The integrator: dp/dz = rho * g of phase ph integrated from the depth
\* zfrom, where the pressure is pfrom, to the depth zto, upwards or
\* downwards, one depth unit a step; the density of an incompressible phase
\* is the same on both sides of a contact.
RECURSIVE IntegrateFrom(_, _, _, _, _)
IntegrateFrom(reg, ph, zfrom, pfrom, zto) ==
    IF zfrom = zto THEN pfrom
    ELSE IF zfrom < zto
    THEN IntegrateFrom(reg, ph, zfrom + 1, pfrom + RhoG(ph, reg.repcell), zto)
    ELSE IntegrateFrom(reg, ph, zfrom - 1, pfrom - RhoG(ph, reg.repcell), zto)

\* Pressure of a phase at depth z: oil from the datum, water from the
\* water-oil contact, gas from the gas-oil contact.
OilPress(reg, z) ==
    IntegrateFrom(reg, "Liquid", Datum(reg), reg.rec.main.press, z)

PhasePress(reg, ph, z) ==
    IF ph = "Liquid" THEN OilPress(reg, z)
    ELSE IF ph = "Aqua"
    THEN IntegrateFrom(reg, "Aqua", Zwoc(reg),
                       OilPress(reg, Zwoc(reg)) - reg.rec.woc.press, z)
    ELSE IntegrateFrom(reg, "Vapour", Zgoc(reg),
                       OilPress(reg, Zgoc(reg)) + reg.rec.goc.press, z)

\* phasePressures(G, reg, cells, grav): one row per active phase, one entry
\* per cell of the range.
phasePressures(grid, reg, cells) ==
    [pos \in 1..NumPhases(reg.pu) |->
        [i \in 1..Len(cells) |->
            PhasePress(reg, PhaseAt(reg.pu, pos - 1), CellDepth(grid, cells[i]))]]

\* =================================================== the driver
\* The driver (the constructor of PhasePressureSaturationComputer):
\*   deck, G, props   its arguments: the deck's EQUIL and EQLNUM fields, the
\*                    grid, the property model (with the phase usage)
\*   pc, r            where the constructor is, and the region of its loop
\*   rec, eqlmap      its locals: the records and the region mapping
\*   pp_, sat_        the members press() and saturation() return
\*   wrP, wrS         history: per global cell slot, the regions whose
\*                    scatter wrote it (pressure, saturation)
\*   local            history: the region-local results of the last pass
\* phaseSaturations on its own:
\*   sin, sout        its arguments and its result
\* The region pipelines of calcSat run side by side:
\*   par              the arrays at the fork and, per region, the pipeline's
\*                    locals and position
\* FVVelocity2P (dumux/new_decoupled/2p/diffusion/fv/fvvelocity2p.hh):
\*   vel              the formulation, the object and the velocities stored
\* start() (ewoms/common/start.hh):
\*   st               the process: its environment, the parameter tree, the
\*                    output, the position in start() and the return value
VARIABLES deck, G, props, pc, r, rec, eqlmap, pp_, sat_, wrP, wrS, local,
          sin, sout, par, vel, st

\* What the constructor and phaseSaturations on its own leave alone.
aux == <<par, vel, st>>

vars == <<deck, G, props, pc, r, rec, eqlmap, pp_, sat_, wrP, wrS, local,
          sin, sout, aux>>

RecSet == {RecordOfLine(l) : l \in LineSet}

\* The EQUIL lines of the decks the driver is given: LineSet without the
\* datum below the water-oil contact.
DeckLines == {l \in LineSet : l.datum_depth_ <= l.water_oil_contact_depth_}

\* The EQUIL tables of a deck that has the field: one line or more.
EquilTables == UNION {SeqsOfLen(DeckLines, k) : k \in 1..MaxRecs}

\* Region ids a deck's EQLNUM may hold: as many as the largest EQUIL table
\* has records (a shorter table leaves regions without a record).
RegionIds == 0..(MaxRecs - 1)

\* A deck: with or without EQUIL, with or without EQLNUM; a supplied EQLNUM
\* is a whole-grid array (one region id per cell of the grid).
Decks(n) ==
    { [hasEQUIL |-> he, EQUIL |-> eq, hasEQLNUM |-> hn, EQLNUM |-> en] :
        he \in BOOLEAN, eq \in EquilTables \cup {<<>>}, hn \in BOOLEAN,
        en \in SeqsOfLen(RegionIds, n) \cup {<<>>} }

WellFormedDeck(dk, n) ==
    /\ dk.hasEQUIL <=> dk.EQUIL # <<>>
    /\ IF dk.hasEQLNUM THEN Len(dk.EQLNUM) = n ELSE dk.EQLNUM = <<>>

\* Variant of ZeroMatrix: the rows are not sized.
ZeroMatrixEmptyRows(np, n) == [p \in 1..np |-> <<>>]

\* std::vector<double>(n): n zeros; np of them.
ZeroMatrix(np, n) == [p \in 1..np |-> [c \in 1..n |-> 0]]

NoLocal == [r |-> -1, cells |-> <<>>, press |-> <<>>, sat |-> <<>>]

NoInput == [rec |-> RecordOfLine(Line(0, 0, 0, 0, 0, 0)), cells |-> <<>>,
            press |-> <<>>]

Idle == [status |-> "idle", what |-> "", sat |-> <<>>, calls |-> <<>>]

NoPar == [at |-> <<>>, regs |-> <<>>, mixed |-> FALSE]

\* No FVVelocity2P object, no process in start().
NoVel == [status |-> "none"]

NoStart == [pc |-> "none"]

Init ==
    /\ G \in [number_of_cells : 1..MaxCells]
    /\ props \in PropsSet
    /\ deck \in {dk \in Decks(G.number_of_cells) :
                    WellFormedDeck(dk, G.number_of_cells)}
    /\ pc = "getEquil"
    /\ r = 0
    /\ rec = <<>>
    /\ eqlmap = <<>>
    /\ pp_ = ZeroMatrix(numPhases(props), G.number_of_cells)
    /\ sat_ = ZeroMatrix(numPhases(props), G.number_of_cells)
    /\ wrP = [c \in 1..G.number_of_cells |-> {}]
    /\ wrS = [c \in 1..G.number_of_cells |-> {}]
    /\ local = NoLocal
    /\ sin = NoInput
    /\ sout = Idle
    /\ par = NoPar
    /\ vel = NoVel
    /\ st = NoStart

\* Variant of Throw: a handler swallows the exception and the constructor
\* completes.
ThrowSwallowed ==
    /\ pc' = "done"
    /\ UNCHANGED <<pp_, sat_>>

\* An exception leaves the constructor: there is no handler in it, the
\* members are destroyed and no object comes to exist.
Throw ==
    /\ pc' = "failed"
    /\ pp_' = <<>>
    /\ sat_' = <<>>

\* The process dies (an access outside a vector that the system catches).
Crash ==
    /\ pc' = "crashed"
    /\ pp_' = <<>>
    /\ sat_' = <<>>

\* Variant of ScatterIndex: the local position in place of the cell.
ScatterIndexLocal(cells, i) == i - 1

\* *c: the global slot the i-th entry (1-based here) of a region-local row
\* goes to is the i-th cell of the range.
ScatterIndex(cells, i) == cells[i]

\* The global slots a scatter over cells writes.
ScatterSlots(cells) == {ScatterIndex(cells, i) : i \in 1..Len(cells)}

\* Variant of Scatter: the result iterator always runs over row 0.
ScatterFirstRow(arr, res, cells) ==
    [p \in 1..Len(arr) |->
        [c \in 1..Len(arr[p]) |->
            IF c - 1 \in ScatterSlots(cells)
            THEN res[1][CHOOSE i \in 1..Len(cells) :
                            ScatterIndex(cells, i) = c - 1]
            ELSE arr[p][c]]]

\* The loop "for p, for c in cells: d[*c] = *s" of calcPressII and calcSat:
\* entry i of row p of the region-local result goes to slot *c of row p of
\* the global array.
Scatter(arr, res, cells) ==
    [p \in 1..Len(arr) |->
        [c \in 1..Len(arr[p]) |->
            IF c - 1 \in ScatterSlots(cells)
            THEN res[p][CHOOSE i \in 1..Len(cells) :
                            ScatterIndex(cells, i) = c - 1]
            ELSE arr[p][c]]]

\* History: region reg wrote the slots of the scatter over cells.
Mark(wr, cells, reg) ==
    [c \in 1..Len(wr) |->
        IF c - 1 \in ScatterSlots(cells) THEN wr[c] \cup {reg} ELSE wr[c]]

\* rec[r]: the record of region r; outside the vector the read is undefined
\* and yields whatever the memory holds (or ends the process, see Crash).
RecAt(recs, reg) ==
    IF reg < Len(recs) THEN {recs[reg + 1]} ELSE RecSet

\* *cells.begin(): the first cell of the range; for an empty range the read
\* is undefined and yields some cell index.
RepCells(grid, cells) ==
    IF Len(cells) > 0 THEN {cells[1]} ELSE 0..(grid.number_of_cells - 1)

\* Some cell of the range is no cell of the grid: d[*c] is a store outside
\* the vector, which is undefined; it leaves the vector as it is (and
\* changes other memory) or ends the process, see Crash.
OutOfGrid(grid, cells) ==
    \E i \in 1..Len(cells) : cells[i] >= grid.number_of_cells

\* Variant of SatInput: the stored whole-grid array is handed on.
SatInputStored(press, stored) == stored

\* phaseSaturations(eqreg, cells, props, press): the pressures handed to
\* the resolver are the local ones phasePressures has just returned.
SatInput(press, stored) == press

\* const std::vector<EquilRecord> rec = getEquil(deck);
CtorGetEquil ==
    /\ pc = "getEquil"
    /\ IF deck.hasEQUIL
       THEN /\ rec' = getEquil(deck)
            /\ pc' = "equilnum"
            /\ UNCHANGED <<pp_, sat_>>
       ELSE /\ Throw
            /\ UNCHANGED rec
    /\ UNCHANGED <<deck, G, props, r, eqlmap, wrP, wrS, local, sin, sout, aux>>

\* const RegionMapping<> eqlmap(equilnum(deck, G));
CtorRegionMapping ==
    /\ pc = "equilnum"
    /\ eqlmap' = equilnum(deck, G)
    /\ pc' = "calcPressII"
    /\ r' = 0
    /\ UNCHANGED <<deck, G, props, rec, pp_, sat_, wrP, wrS, local, sin, sout, aux>>

\* One pass of the region loop of calcPressII.
CalcPressIIStep ==
    /\ pc = "calcPressII"
    /\ r < numRegions(eqlmap)
    /\ LET cells == Cells(eqlmap, r)
       IN  \/ \E repcell \in RepCells(G, cells), rc \in RecAt(rec, r) :
                LET eqreg == EqReg(rc, repcell, phaseUsage(props))
                    res   == phasePressures(G, eqreg, cells)
                IN  /\ pp_' = Scatter(pp_, res, cells)
                    /\ wrP' = Mark(wrP, cells, r)
                    /\ local' = [r |-> r, cells |-> cells, press |-> res,
                                 sat |-> <<>>]
                    /\ r' = r + 1
                    /\ UNCHANGED <<pc, sat_, wrS>>
           \/ /\ r >= Len(rec) \/ OutOfGrid(G, cells)
              /\ Crash
              /\ UNCHANGED <<r, wrP, wrS, local>>
    /\ UNCHANGED <<deck, G, props, rec, eqlmap, sin, sout, aux>>

\* calcPressII returns; calcSat starts.
CalcPressIIEnd ==
    /\ pc = "calcPressII"
    /\ r >= numRegions(eqlmap)
    /\ pc' = "calcSat"
    /\ r' = 0
    /\ UNCHANGED <<deck, G, props, rec, eqlmap, pp_, sat_, wrP, wrS, local,
                   sin, sout, aux>>

\* One pass of the region loop of calcSat.
CalcSatStep ==
    /\ pc = "calcSat"
    /\ r < numRegions(eqlmap)
    /\ LET cells == Cells(eqlmap, r)
       IN  \/ \E repcell \in RepCells(G, cells), rc \in RecAt(rec, r) :
                LET eqreg == EqReg(rc, repcell, phaseUsage(props))
                    press == phasePressures(G, eqreg, cells)
                    sat   == phaseSaturations(eqreg, cells, props,
                                              SatInput(press, pp_))
                IN  IF sat.status = "threw"
                    THEN /\ Throw
                         /\ local' = [r |-> r, cells |-> cells,
                                      press |-> press, sat |-> <<>>]
                         /\ UNCHANGED <<r, wrP, wrS>>
                    ELSE /\ pp_' = Scatter(pp_, press, cells)
                         /\ sat_' = Scatter(sat_, sat.sat, cells)
                         /\ wrP' = Mark(wrP, cells, r)
                         /\ wrS' = Mark(wrS, cells, r)
                         /\ local' = [r |-> r, cells |-> cells,
                                      press |-> press, sat |-> sat.sat]
                         /\ r' = r + 1
                         /\ UNCHANGED pc
           \/ /\ r >= Len(rec) \/ OutOfGrid(G, cells)
              /\ Crash
              /\ UNCHANGED <<r, wrP, wrS, local>>
    /\ UNCHANGED <<deck, G, props, rec, eqlmap, sin, sout, aux>>

\* calcSat returns and so does the constructor: the object exists.
CalcSatEnd ==
    /\ pc = "calcSat"
    /\ r >= numRegions(eqlmap)
    /\ pc' = "done"
    /\ UNCHANGED <<deck, G, props, r, rec, eqlmap, pp_, sat_, wrP, wrS, local,
                   sin, sout, aux>>

Next ==
    \/ CtorGetEquil
    \/ CtorRegionMapping
    \/ CalcPressIIStep
    \/ CalcPressIIEnd
    \/ CalcSatStep
    \/ CalcSatEnd

Spec == Init /\ [][Next]_vars

\* ======================================= phaseSaturations on its own
\* The capillary pressures asked of a cell: from below the range of the
\* curves to above it.
Targets == -1..(Scale + 1)

\* The oil pressure of local cell i (1-based here); it differs from cell to
\* cell.
OilIn(i) == Scale + 1 + i

\* The pressure rows of the active phases, from the capillary pressures
\* tw (oil minus water) and tg (gas minus oil) asked per cell.
PressIn(pu, n, tw, tg) ==
    [pos \in 1..NumPhases(pu) |->
        [i \in 1..n |->
            LET ph == PhaseAt(pu, pos - 1)
            IN  IF ph = "Liquid" THEN OilIn(i)
                ELSE IF ph = "Aqua" THEN OilIn(i) - tw[i]
                ELSE OilIn(i) + tg[i]]]

\* The capillary pressures asked of the n cells for a phase; none are asked
\* for a phase that is not active.
TargetRows(active, n) ==
    IF active THEN [1..n -> Targets] ELSE {[i \in 1..n |-> 0]}

InitSat ==
    /\ props \in PropsSet
    /\ \E n \in 1..MaxRegCells, rc \in RecSet :
         \E tw \in TargetRows(props.pu["Aqua"], n),
            tg \in TargetRows(props.pu["Vapour"], n) :
            sin = [rec |-> rc, cells |-> [i \in 1..n |-> i - 1],
                   press |-> PressIn(props.pu, n, tw, tg)]
    /\ sout = Idle
    /\ deck = [hasEQUIL |-> FALSE, EQUIL |-> <<>>, hasEQLNUM |-> FALSE,
               EQLNUM |-> <<>>]
    /\ G = [number_of_cells |-> MaxRegCells]
    /\ pc = "off"
    /\ r = 0
    /\ rec = <<>>
    /\ eqlmap = <<>>
    /\ pp_ = <<>>
    /\ sat_ = <<>>
    /\ wrP = <<>>
    /\ wrS = <<>>
    /\ local = NoLocal
    /\ par = NoPar
    /\ vel = NoVel
    /\ st = NoStart

\* The region phaseSaturations is called for.
SatReg == EqReg(sin.rec, sin.cells[1], phaseUsage(props))

CallPhaseSaturations ==
    /\ sout.status = "idle"
    /\ sin # NoInput
    /\ sout' = phaseSaturations(SatReg, sin.cells, props, sin.press)
    /\ UNCHANGED <<deck, G, props, pc, r, rec, eqlmap, pp_, sat_, wrP, wrS,
                   local, sin, aux>>

NextSat == CallPhaseSaturations

SpecSat == InitSat /\ [][NextSat]_vars

\* ===================== the constructor with an EQLNUM of any length
\* The decks whose EQLNUM, if supplied, has a length of its own: shorter
\* than, as long as or longer than the grid has cells.
LenDecks(m) ==
    { dk \in Decks(m) :
        /\ dk.hasEQUIL /\ Len(dk.EQUIL) = 2
        /\ dk.hasEQLNUM <=> dk.EQLNUM # <<>>
        /\ Range(dk.EQLNUM) \subseteq {0, 1} }

InitLen ==
    /\ G \in [number_of_cells : 1..MaxCells]
    /\ props \in PropsSet
    /\ \E m \in 1..MaxCells : deck \in LenDecks(m)
    /\ pc = "getEquil"
    /\ r = 0
    /\ rec = <<>>
    /\ eqlmap = <<>>
    /\ pp_ = ZeroMatrix(numPhases(props), G.number_of_cells)
    /\ sat_ = ZeroMatrix(numPhases(props), G.number_of_cells)
    /\ wrP = [c \in 1..G.number_of_cells |-> {}]
    /\ wrS = [c \in 1..G.number_of_cells |-> {}]
    /\ local = NoLocal
    /\ sin = NoInput
    /\ sout = Idle
    /\ par = NoPar
    /\ vel = NoVel
    /\ st = NoStart

SpecLen == InitLen /\ [][Next]_vars

\* =============================== the region pipelines side by side
\* The passes of the region loop of calcSat as pipelines that run side by
\* side without locks: each binds its region, integrates, resolves and then
\* scatters, one store d[*c] = *s at a time; the stores of different
\* pipelines interleave freely.
\* Variant of ScatterWrites: the store goes to the local position.
ScatterWritesLocalSlot(arr, np, res, cells) ==
    [k \in 1..(np * Len(cells)) |->
        LET p == ((k - 1) \div Len(cells)) + 1
            i == ((k - 1) % Len(cells)) + 1
        IN  [arr |-> arr, p |-> p, slot |-> i - 1, val |-> res[p][i]]]

\* The stores of the scatter loop "for p, for c in cells: d[*c] = *s" into
\* the array arr, in the order the loop makes them.
ScatterWrites(arr, np, res, cells) ==
    [k \in 1..(np * Len(cells)) |->
        LET p == ((k - 1) \div Len(cells)) + 1
            i == ((k - 1) % Len(cells)) + 1
        IN  [arr |-> arr, p |-> p, slot |-> ScatterIndex(cells, i),
             val |-> res[p][i]]]

\* The decks the pipelines are run on: one or two EQUIL lines (or no EQUIL
\* field), an EQLNUM over the regions 0 and 1 (or no EQLNUM field).
ParDecks(n) ==
    { dk \in Decks(n) :
        /\ WellFormedDeck(dk, n)
        /\ Len(dk.EQUIL) <= 2
        /\ Range(dk.EQLNUM) \subseteq {0, 1} }

InitPar ==
    /\ G \in [number_of_cells : 1..MaxCells]
    /\ props \in PropsSet
    /\ deck \in ParDecks(G.number_of_cells)
    /\ pc = "getEquil"
    /\ r = 0
    /\ rec = <<>>
    /\ eqlmap = <<>>
    /\ pp_ = ZeroMatrix(numPhases(props), G.number_of_cells)
    /\ sat_ = ZeroMatrix(numPhases(props), G.number_of_cells)
    /\ wrP = [c \in 1..G.number_of_cells |-> {}]
    /\ wrS = [c \in 1..G.number_of_cells |-> {}]
    /\ local = NoLocal
    /\ sin = NoInput
    /\ sout = Idle
    /\ par = NoPar
    /\ vel = NoVel
    /\ st = NoStart

\* A pipeline that has not started.
StartPipe == [stage |-> "start", eqreg |-> <<>>, writes |-> <<>>, k |-> 0]

Pipe(reg) == par.regs[reg + 1]

MidScatter(reg) ==
    /\ Pipe(reg).stage = "scatter"
    /\ 0 < Pipe(reg).k
    /\ Pipe(reg).k < Len(Pipe(reg).writes)

\* The loop of calcSat is entered: one pipeline per region.
ParFork ==
    /\ pc = "calcSat"
    /\ par = NoPar
    /\ pc' = "calcSatPar"
    /\ par' = [at |-> <<pp_, sat_>>,
               regs |-> [i \in 1..numRegions(eqlmap) |-> StartPipe],
               mixed |-> FALSE]
    /\ UNCHANGED <<deck, G, props, r, rec, eqlmap, pp_, sat_, wrP, wrS, local,
                   sin, sout, vel, st>>

\* The pipeline of region reg up to its scatter loops: cells(r), repcell,
\* eqreg, phasePressures, phaseSaturations.  It reads the mapping, the
\* records, the grid and the property model, and no global array.
ParCompute(reg) ==
    /\ pc = "calcSatPar"
    /\ Pipe(reg).stage = "start"
    /\ LET cells == Cells(eqlmap, reg)
       IN  \/ \E repcell \in RepCells(G, cells), rc \in RecAt(rec, reg) :
                LET eqreg == EqReg(rc, repcell, phaseUsage(props))
                    press == phasePressures(G, eqreg, cells)
                    sat   == phaseSaturations(eqreg, cells, props,
                                              SatInput(press, pp_))
                IN  IF sat.status = "threw"
                    THEN /\ Throw
                         /\ UNCHANGED par
                    ELSE /\ par' = [par EXCEPT !.regs[reg + 1] =
                                     [stage  |-> "scatter",
                                      eqreg  |-> eqreg,
                                      writes |->
                                        ScatterWrites("pp_", numPhases(props),
                                                      press, cells)
                                        \o ScatterWrites("sat_", numPhases(props),
                                                         sat.sat, cells),
                                      k      |-> 0]]
                         /\ UNCHANGED <<pc, pp_, sat_>>
           \/ /\ reg >= Len(rec)
              /\ Crash
              /\ UNCHANGED par
    /\ UNCHANGED <<deck, G, props, r, rec, eqlmap, wrP, wrS, local, sin, sout,
                   vel, st>>

\* One store d[*c] = *s of the pipeline of region reg.
ParWrite(reg) ==
    /\ pc = "calcSatPar"
    /\ Pipe(reg).stage = "scatter"
    /\ Pipe(reg).k < Len(Pipe(reg).writes)
    /\ LET w == Pipe(reg).writes[Pipe(reg).k + 1]
       IN  IF w.arr = "pp_"
           THEN /\ pp_' = [pp_ EXCEPT ![w.p][w.slot + 1] = w.val]
                /\ wrP' = [wrP EXCEPT ![w.slot + 1] = @ \cup {reg}]
                /\ UNCHANGED <<sat_, wrS>>
           ELSE /\ sat_' = [sat_ EXCEPT ![w.p][w.slot + 1] = w.val]
                /\ wrS' = [wrS EXCEPT ![w.slot + 1] = @ \cup {reg}]
                /\ UNCHANGED <<pp_, wrP>>
    /\ par' = [par EXCEPT !.regs[reg + 1].k = @ + 1,
                          !.mixed = @ \/ \E o \in 0..(Len(par.regs) - 1) :
                                            o # reg /\ MidScatter(o)]
    /\ UNCHANGED <<deck, G, props, pc, r, rec, eqlmap, local, sin, sout,
                   vel, st>>

\* Every pipeline has made its last store: calcSat returns.
ParJoin ==
    /\ pc = "calcSatPar"
    /\ \A reg \in 0..(Len(par.regs) - 1) :
          /\ Pipe(reg).stage = "scatter"
          /\ Pipe(reg).k = Len(Pipe(reg).writes)
    /\ pc' = "done"
    /\ UNCHANGED <<deck, G, props, r, rec, eqlmap, pp_, sat_, wrP, wrS, local,
                   sin, sout, par, vel, st>>

ParStep == \E reg \in 0..(Len(par.regs) - 1) : ParCompute(reg) \/ ParWrite(reg)

NextPar ==
    \/ CtorGetEquil
    \/ CtorRegionMapping
    \/ CalcPressIIStep
    \/ CalcPressIIEnd
    \/ ParFork
    \/ ParStep
    \/ ParJoin

SpecPar == InitPar /\ [][NextPar]_vars

\* The loop of calcSat run region after region from the arrays arrs, each
\* region bound as in eqregs: the arrays it leaves, or the throw.
RECURSIVE SeqCalcSat(_, _, _, _, _, _)
SeqCalcSat(arrs, reg, map, grid, prps, eqregs) ==
    IF reg >= numRegions(map) THEN arrs
    ELSE LET cells == Cells(map, reg)
             press == phasePressures(grid, eqregs[reg + 1], cells)
             sat   == phaseSaturations(eqregs[reg + 1], cells, prps, press)
         IN  IF sat.status = "threw"
             THEN [status |-> "threw", pp |-> <<>>, sat |-> <<>>]
             ELSE SeqCalcSat([status |-> "returned",
                              pp  |-> Scatter(arrs.pp, press, cells),
                              sat |-> Scatter(arrs.sat, sat.sat, cells)],
                             reg + 1, map, grid, prps, eqregs)

\* ========================================================= FVVelocity2P
\* The equilibration driver and phaseSaturations are not in use.
EquilOff ==
    /\ deck = [hasEQUIL |-> FALSE, EQUIL |-> <<>>, hasEQLNUM |-> FALSE,
               EQLNUM |-> <<>>]
    /\ G = [number_of_cells |-> 1]
    /\ props = [swco |-> 0, pu |-> [ph \in PhaseSet |-> TRUE]]
    /\ pc = "off"
    /\ r = 0
    /\ rec = <<>>
    /\ eqlmap = <<>>
    /\ pp_ = <<>>
    /\ sat_ = <<>>
    /\ wrP = <<>>
    /\ wrS = <<>>
    /\ local = NoLocal
    /\ sin = NoInput
    /\ sout = Idle
    /\ par = NoPar

equilVars == <<deck, G, props, pc, r, rec, eqlmap, pp_, sat_, wrP, wrS, local,
               sin, sout, par>>

\* The velocity formulations: vw, vn and vt of TwoPCommonIndices and the
\* value other of the class.
vw == 0

vn == 1

vt == 2

other == 999

\* VelocityFormulation is an integer property of the type tag: the three
\* formulations, the value other, and an integer that is none of them.
VelocityFormulations == {vw, vn, vt, vt + 1, other}

PressureTypes == {"pw", "pn", "pglobal"}

FaceKinds == {"interior", "dirichlet", "neumann"}

\* The intersections of the element calculateVelocity visits.
FaceLists == UNION {SeqsOfLen(FaceKinds, k) : k \in 1..2}

\* velocity()[i][isIndex] and velocitySecondPhase()[i][isIndex] before
\* calculateVelocity has stored anything.
NoFlux == [velocity |-> "unset", second |-> "unset"]

InitVel ==
    /\ EquilOff
    /\ st = NoStart
    /\ \E vtype \in VelocityFormulations, compress \in BOOLEAN,
          ptype \in PressureTypes, faces \in FaceLists :
          vel = [status |-> "new", what |-> "", ctor |-> 0,
                 velocityType_ |-> vtype, EnableCompressibility |-> compress,
                 pressureType |-> ptype, faces |-> faces, k |-> 0,
                 flux |-> [i \in 1..Len(faces) |-> NoFlux]]

\* The body of both constructors.
CtorOutcome(vtype, compress) ==
    IF compress /\ vtype = vt THEN "NotImplemented: total velocity, compressible"
    ELSE IF vtype = other THEN "NotImplemented: velocity type"
    ELSE "constructed"

Construct(which) ==
    /\ vel.status = "new"
    /\ LET res == CtorOutcome(vel.velocityType_, vel.EnableCompressibility)
       IN  vel' = [vel EXCEPT !.ctor = which,
                              !.status = IF res = "constructed"
                                         THEN "constructed" ELSE "NotImplemented",
                              !.what = IF res = "constructed" THEN "" ELSE res]
    /\ UNCHANGED <<equilVars, st>>

\* FVVelocity2P(Problem& problem)
FVVelocity2P_1 == Construct(1)

\* FVVelocity2P(Problem& problem, std::string solverName,
\*              std::string preconditionerName)
FVVelocity2P_2 == Construct(2)

\* What calculateVelocity stores for one intersection of kind kind, flux
\* being what the entry held.
StoredFlux(vtype, ptype, kind, flux) ==
    LET total == IF kind # "neumann" /\ ptype = "pglobal"
                 THEN [flux EXCEPT !.velocity = "total of pglobal"]
                 ELSE flux
    IN  IF vtype = vw
        THEN [velocity |-> "velocityW", second |-> "velocityNW"]
        ELSE IF vtype = vn
        THEN [velocity |-> "velocityNW", second |-> "velocityW"]
        ELSE IF vtype = vt /\ (kind = "neumann" \/ ptype \in {"pw", "pn"})
        THEN [total EXCEPT !.velocity = "velocityW + velocityNW"]
        ELSE total

\* One pass of the intersection loop of calculateVelocity.
CalculateVelocityStep ==
    /\ vel.status = "constructed"
    /\ vel.k < Len(vel.faces)
    /\ vel' = [vel EXCEPT !.k = @ + 1,
                          !.flux[vel.k + 1] =
                              StoredFlux(vel.velocityType_, vel.pressureType,
                                         vel.faces[vel.k + 1], @)]
    /\ UNCHANGED <<equilVars, st>>

NextVel ==
    \/ FVVelocity2P_1
    \/ FVVelocity2P_2
    \/ CalculateVelocityStep

SpecVel == InitVel /\ [][NextVel]_vars

\* ------------------------------------------------------------ start()
\* ewoms/common/start.hh: start() with setupParameters_.  The state of one
\* process is the record st; st.out is what the process has written to
\* standard output, one token per message.
MaxRank == 1

Signals == {"SIGINT", "SIGHUP", "SIGABRT", "SIGFPE", "SIGSEGV", "SIGPIPE",
            "SIGTERM"}

\* The parameters start() and setupParameters_ read, and one key ("Foo")
\* that no registerParameters() announces.
Registered == {"ParameterFile", "PrintProperties", "PrintParameters",
               "EndTime", "InitialTimeStepSize"}

ParamNames == Registered \cup {"Foo"}

\* A parameter is given at most once in one place: <<>> or <<value>>.
Option(S) == {<<>>} \cup {<<v>> : v \in S}

\* The command lines: each parameter given or not.  Times are integers,
\* -60 stands for a time below -1e50.
CommandLines ==
    [ParameterFile : Option({"missing", "readable"}),
     PrintProperties : Option({0, 1}),
     PrintParameters : Option({0, 1, 2}),
     EndTime : Option({1, -60}),
     InitialTimeStepSize : Option({1}),
     Foo : Option({1})]

\* The contents of a readable parameter file; a file does not name another
\* file.
FileContents ==
    [ParameterFile : {<<>>},
     PrintProperties : {<<>>},
     PrintParameters : Option({1}),
     EndTime : Option({2}),
     InitialTimeStepSize : Option({2}),
     Foo : Option({2})]

\* What parseCommandLineOptions makes of argv: the options, a request for
\* help, or an argument it cannot read.
ArgKinds == {"options", "help", "malformed"}

EmptyTree == [n \in ParamNames |-> <<>>]

\* The compile-time default of a parameter: no file, printing on a
\* terminal only for 2, times of -1e100 (here -100).
ParamDefault(name) ==
    CASE name = "ParameterFile" -> ""
      [] name \in {"PrintProperties", "PrintParameters"} -> 2
      [] name \in {"EndTime", "InitialTimeStepSize"} -> -100
      [] OTHER -> 0

\* EWOMS_GET_PARAM: the value in the parameter tree, else the default.
GetParam(tree, name) ==
    IF tree[name] = <<>> THEN ParamDefault(name) ELSE tree[name][1]

\* Parameters::parseCommandLineOptions: the error string ("" for none) and
\* the tree it fills; the usage message is printed only if handleHelp.
ParseCommandLineOptions(argv, handleHelp) ==
    [s |-> IF argv.kind = "options" THEN "" ELSE argv.kind,
     tree |-> IF argv.kind = "options" THEN argv.params ELSE EmptyTree,
     out |-> IF argv.kind # "options" /\ handleHelp THEN <<"usage">> ELSE <<>>]

\* Dune::ParameterTreeParser::readINITree(file, tree, overwrite).
ReadINITree(content, tree, overwrite) ==
    [n \in ParamNames |->
        IF content[n] = <<>> THEN tree[n]
        ELSE IF tree[n] = <<>> \/ overwrite THEN content[n]
        ELSE tree[n]]

\* The keys of the tree that were specified and that nothing registered.
Unused(tree) == {n \in ParamNames \ Registered : tree[n] # <<>>}

\* Parameters::printValues: the known parameters, then the unused ones.
PrintValues(tree) ==
    <<"values">> \o (IF Unused(tree) # {} THEN <<"unused">> ELSE <<>>)

\* Parameters::printUnused: the unused parameters if there are any; its
\* result tells whether it printed.
PrintUnused(tree) ==
    [out |-> IF Unused(tree) # {} THEN <<"unused">> ELSE <<>>,
     printed |-> Unused(tree) # {}]

\* Variant of PrintParametersOut: parameters are printed only on request.
PrintParametersOnRequest(printParams, outTty, tree) ==
    IF printParams = 0 THEN <<>>
    ELSE IF printParams = 1 \/ ~outTty
    THEN PrintValues(tree) \o <<"separator">>
    ELSE <<>>

\* Lines 280-298 of start(): what rank 0 prints about the parameters.
PrintParametersOut(printParams, outTty, tree) ==
    IF printParams # 0
    THEN IF printParams = 1 \/ ~outTty
         THEN PrintValues(tree) \o <<"separator">>
         ELSE PrintUnused(tree).out
                  \o (IF PrintUnused(tree).printed THEN <<"separator">>
                      ELSE <<>>)
    ELSE PrintUnused(tree).out
             \o (IF PrintUnused(tree).printed THEN <<"separator">> ELSE <<>>)

\* Lines 302-306 of start().
PrintPropertiesOut(printProps, outTty) ==
    IF printProps # 0 /\ (printProps = 1 \/ ~outTty) THEN <<"properties">>
    ELSE <<>>

\* What can be thrown inside the try block.
Thrown == {"std::exception", "Dune::Exception", "other"}

\* Variant of Catch: without the handler for Dune::Exception.
CatchStdOrUnknown(e, newer) ==
    IF e = "std::exception" \/ (e = "Dune::Exception" /\ newer)
    THEN [out |-> <<"abort">>, ret |-> 1]
    ELSE [out |-> <<"unknown exception">>, ret |-> 3]

\* The handlers of the try block: the message and the status.  From Dune
\* 2.5 on a Dune::Exception is a std::exception and the second handler is
\* not compiled.
Catch(e, newer) ==
    IF e = "std::exception" \/ (e = "Dune::Exception" /\ newer)
    THEN [out |-> <<"abort">>, ret |-> 1]
    ELSE IF e = "Dune::Exception"
    THEN [out |-> <<"dune error">>, ret |-> 2]
    ELSE [out |-> <<"unknown exception">>, ret |-> 3]

\* std::cout << ... inside "if (myRank == 0)".
Rank0Says(s, tokens) ==
    IF s.rank = 0 THEN [s EXCEPT !.out = @ \o tokens] ELSE s

Return(s, code) == [s EXCEPT !.pc = "returned", !.ret = <<code>>]

\* return status; in setupParameters_.
SetupReturns(s, status) ==
    [s EXCEPT !.pc = "status", !.paramStatus = <<status>>]

Caught(s, e) ==
    Return(Rank0Says([s EXCEPT !.thrown = <<e>>], Catch(e, s.DuneNewer25).out),
           Catch(e, s.DuneNewer25).ret)

InitStart ==
    /\ EquilOff
    /\ vel = NoVel
    /\ \E rank \in 0..MaxRank, inTty \in BOOLEAN, outTty \in BOOLEAN,
          newer \in BOOLEAN, kind \in ArgKinds, params \in CommandLines :
          st = [pc |-> "signals", rank |-> rank, stdinTty |-> inTty,
                stdoutTty |-> outTty, DuneNewer25 |-> newer,
                argv |-> [kind |-> kind, params |-> params],
                tree |-> EmptyTree, file |-> EmptyTree, out |-> <<>>,
                handlers |-> {}, sim |-> "none", thrown |-> <<>>,
                paramStatus |-> <<>>, ret |-> <<>>]

\* Lines 216-224: the signal handlers, if standard input is a terminal.
InstallSignalHandlers ==
    /\ st.pc = "signals"
    /\ st' = [st EXCEPT !.pc = "parse",
                        !.handlers = IF st.stdinTty THEN Signals ELSE {}]
    /\ UNCHANGED <<equilVars, vel>>

\* setupParameters_, lines 131-142: the command line.
SetupCommandLine ==
    /\ st.pc = "parse"
    /\ LET parsed == ParseCommandLineOptions(st.argv, st.rank = 0)
           filled == [st EXCEPT !.tree = parsed.tree, !.out = @ \o parsed.out]
       IN  st' = IF parsed.s # "" THEN SetupReturns(filled, 1)
                 ELSE [filled EXCEPT !.pc = "file"]
    /\ UNCHANGED <<equilVars, vel>>

\* Variant of SetupParameterFile: the file is read with overwrite = true.
SetupParameterFileOverwriting ==
    /\ st.pc = "file"
    /\ LET paramFileName == GetParam(st.tree, "ParameterFile")
       IN  IF paramFileName = ""
           THEN st' = SetupReturns(st, 0)
           ELSE IF paramFileName = "missing"
           THEN st' = SetupReturns(Rank0Says(st, <<"usage">>), 1)
           ELSE \E content \in FileContents :
                   st' = [SetupReturns(st, 0) EXCEPT !.file = content,
                                    !.tree = ReadINITree(content, st.tree, TRUE)]
    /\ UNCHANGED <<equilVars, vel>>

\* setupParameters_, lines 144-169: the parameter file.
SetupParameterFile ==
    /\ st.pc = "file"
    /\ LET paramFileName == GetParam(st.tree, "ParameterFile")
       IN  IF paramFileName = ""
           THEN st' = SetupReturns(st, 0)
           ELSE IF paramFileName = "missing"
           THEN st' = SetupReturns(Rank0Says(st, <<"usage">>), 1)
           ELSE \E content \in FileContents :
                   st' = [SetupReturns(st, 0) EXCEPT !.file = content,
                                    !.tree = ReadINITree(content, st.tree, FALSE)]
    /\ UNCHANGED <<equilVars, vel>>

\* Lines 238-242: start() looks at the status of setupParameters_.
ParamStatus ==
    /\ st.pc = "status"
    /\ st' = IF st.paramStatus = <<1>> THEN Return(st, 1)
             ELSE IF st.paramStatus = <<2>> THEN Return(st, 0)
             ELSE [st EXCEPT !.pc = "threads"]
    /\ UNCHANGED <<equilVars, vel>>

\* Line 244.
ThreadManagerInit ==
    /\ st.pc = "threads"
    /\ \/ st' = [st EXCEPT !.pc = "mandatory"]
       \/ \E e \in Thrown : st' = Caught(st, e)
    /\ UNCHANGED <<equilVars, vel>>

\* Variant of MandatoryParameters: only the end time is tested.
MandatoryEndTimeOnly ==
    /\ st.pc = "mandatory"
    /\ st' = IF GetParam(st.tree, "EndTime") < -50
             THEN Return(Rank0Says(st, <<"usage">>), 1)
             ELSE [st EXCEPT !.pc = "print"]
    /\ UNCHANGED <<equilVars, vel>>

\* Lines 247-262: a time below -1e50 (here -50) counts as not specified.
MandatoryParameters ==
    /\ st.pc = "mandatory"
    /\ st' = IF GetParam(st.tree, "EndTime") < -50
                \/ GetParam(st.tree, "InitialTimeStepSize") < -50
             THEN Return(Rank0Says(st, <<"usage">>), 1)
             ELSE [st EXCEPT !.pc = "print"]
    /\ UNCHANGED <<equilVars, vel>>

\* Lines 265-306: the greeting, the parameters and the properties.
PrintAtStart ==
    /\ st.pc = "print"
    /\ st' = [Rank0Says(st,
                 <<"greeting">>
                 \o PrintParametersOut(GetParam(st.tree, "PrintParameters"),
                                       st.stdoutTty, st.tree)
                 \o PrintPropertiesOut(GetParam(st.tree, "PrintProperties"),
                                       st.stdoutTty))
              EXCEPT !.pc = "simulator"]
    /\ UNCHANGED <<equilVars, vel>>

\* Line 311.
SimulatorConstruct ==
    /\ st.pc = "simulator"
    /\ \/ st' = [st EXCEPT !.pc = "run", !.sim = "constructed"]
       \/ \E e \in Thrown : st' = Caught(st, e)
    /\ UNCHANGED <<equilVars, vel>>

\* Lines 312-319.
SimulatorRun ==
    /\ st.pc = "run"
    /\ \/ st' = Return(Rank0Says([st EXCEPT !.sim = "ran"], <<"destination">>), 0)
       \/ \E e \in Thrown : st' = Caught([st EXCEPT !.sim = "destroyed"], e)
    /\ UNCHANGED <<equilVars, vel>>

NextStart ==
    \/ InstallSignalHandlers
    \/ SetupCommandLine
    \/ SetupParameterFile
    \/ ParamStatus
    \/ ThreadManagerInit
    \/ MandatoryParameters
    \/ PrintAtStart
    \/ SimulatorConstruct
    \/ SimulatorRun

SpecStart == InitStart /\ [][NextStart]_vars

\* ------------------------------------- resetTerminal_ and the signals
\* The process between the installation of the handlers (lines 216-224)
\* and its end by a signal.  st.handlers holds the signals whose disposition
\* is resetTerminal_, every other signal has its default action, which for
\* the seven signals ends the process.  A handler invocation is a frame on
\* the stack of the thread it interrupts.
MaxThreads == 2

MaxArrivals == 2

\* The signals that arrive in the runs examined: one sent to the process
\* (SIGINT) and one raised by a fault of a thread (SIGFPE).
ArrivingSignals == {"SIGINT", "SIGFPE"}

Threads == 1..st.nthreads

Frame(sig, at) == [sig |-> sig, pc |-> at]

Top(t) == st.stack[t][Len(st.stack[t])]

InHandler(t) == st.stack[t] # <<>>

\* signal() of the BSD kind (glibc) blocks a signal in the thread that runs
\* its handler; signal() of the System V kind resets the disposition when
\* the handler is entered and blocks nothing.
Blocked(s, t, sig) ==
    /\ ~s.sysv
    /\ \E k \in 1..Len(s.stack[t]) : s.stack[t][k].sig = sig

Killed(s, sig) == [s EXCEPT !.alive = sig]

\* The signal sig is taken by thread t: the default action, or
\* resetTerminal_(sig) is entered.
Deliver(s, sig, t) ==
    IF sig \notin s.handlers THEN Killed(s, sig)
    ELSE [s EXCEPT !.stack[t] = Append(@, Frame(sig, "entry")),
                   !.runs[sig] = @ + 1,
                   !.handlers = IF s.sysv THEN @ \ {sig} ELSE @]

InitSig ==
    /\ EquilOff
    /\ vel = NoVel
    /\ \E inTty \in BOOLEAN, sysv \in BOOLEAN, n \in 1..MaxThreads :
          st = [pc |-> "signals", stdinTty |-> inTty, sysv |-> sysv,
                nthreads |-> n, handlers |-> {},
                stack |-> [t \in 1..n |-> <<>>],
                pend |-> [t \in 1..n |-> {}],
                arrivals |-> 0,
                runs |-> [sig \in Signals |-> 0],
                raised |-> {}, sttyFailed |-> {}, alive |-> "running"]

\* start() goes on after line 224 and no signal has ended the process.
Running == st.pc # "signals" /\ st.alive = "running"

\* A signal is generated for the process or for one of its threads; a
\* thread that does not block it takes it, else it stays pending.
Arrive ==
    /\ Running
    /\ st.arrivals < MaxArrivals
    /\ \E sig \in ArrivingSignals, t \in Threads :
          LET s == [st EXCEPT !.arrivals = @ + 1]
          IN  IF ~Blocked(st, t, sig) THEN st' = Deliver(s, sig, t)
              ELSE /\ \A u \in Threads : Blocked(st, u, sig)
                   /\ st' = [s EXCEPT !.pend[t] = @ \cup {sig}]
    /\ UNCHANGED <<equilVars, vel>>

\* Lines 179-182: signal(signum, SIG_DFL) and the message.
HandlerReset(t) ==
    /\ Running /\ InHandler(t) /\ Top(t).pc = "entry"
    /\ st' = [st EXCEPT !.handlers = @ \ {Top(t).sig},
                        !.stack[t][Len(st.stack[t])].pc = "reset"]
    /\ UNCHANGED <<equilVars, vel>>

\* Lines 187-189: system("stty sane"), which may fail.
HandlerStty(t) ==
    /\ Running /\ InHandler(t) /\ Top(t).pc = "reset"
    /\ \E ok \in BOOLEAN :
          st' = [st EXCEPT !.sttyFailed = IF ok THEN @ ELSE @ \cup {Top(t).sig},
                           !.stack[t][Len(st.stack[t])].pc = "stty"]
    /\ UNCHANGED <<equilVars, vel>>

\* Line 192: raise(signum); a blocked signal stays pending for the thread.
HandlerRaise(t) ==
    /\ Running /\ InHandler(t) /\ Top(t).pc = "stty"
    /\ LET sig == Top(t).sig
           s == [st EXCEPT !.raised = @ \cup {sig},
                           !.stack[t][Len(st.stack[t])].pc = "raised"]
       IN  st' = IF Blocked(st, t, sig)
                 THEN [s EXCEPT !.pend[t] = @ \cup {sig}]
                 ELSE Deliver(s, sig, t)
    /\ UNCHANGED <<equilVars, vel>>

\* Line 193: the handler returns, its signal is no longer blocked and is
\* taken if it is pending.
HandlerReturn(t) ==
    /\ Running /\ InHandler(t) /\ Top(t).pc = "raised"
    /\ LET sig == Top(t).sig
           s == [st EXCEPT !.stack[t] = SubSeq(@, 1, Len(@) - 1)]
       IN  st' = IF sig \in st.pend[t] /\ ~Blocked(s, t, sig)
                 THEN Deliver([s EXCEPT !.pend[t] = @ \ {sig}], sig, t)
                 ELSE s
    /\ UNCHANGED <<equilVars, vel>>

resetTerminal_ ==
    \E t \in Threads :
        HandlerReset(t) \/ HandlerStty(t) \/ HandlerRaise(t) \/ HandlerReturn(t)

NextSig ==
    \/ InstallSignalHandlers
    \/ Arrive
    \/ resetTerminal_

SpecSig == InitSig /\ [][NextSig]_vars

\* ------------------------- the saturations of one cell in double arithmetic
\* Lines 156-181 for one cell with water, oil and gas active, in a binary
\* floating-point arithmetic with MantBits significant bits and rounding to
\* nearest, ties to even (double has 53).  Numbers are counted in units of
\* the spacing of the numbers just below 1/4.
MantBits == 3

RECURSIVE Pow2(_)
Pow2(n) == IF n = 0 THEN 1 ELSE 2 * Pow2(n - 1)

\* 1.0
One == Pow2(MantBits + 1)

\* The number of the arithmetic nearest to x >= 0.
RoundPos(x) ==
    LET e == CHOOSE k \in 0..(MantBits + 4) :
                 /\ x \div Pow2(k) < Pow2(MantBits)
                 /\ k > 0 => x \div Pow2(k - 1) >= Pow2(MantBits)
        step == Pow2(e)
        lo == (x \div step) * step
    IN  IF 2 * (x - lo) < step THEN lo
        ELSE IF 2 * (x - lo) > step THEN lo + step
        ELSE IF (lo \div step) % 2 = 0 THEN lo
        ELSE lo + step

\* The result of an operation whose exact value is x.
Fl(x) == IF x < 0 THEN 0 - RoundPos(0 - x) ELSE RoundPos(x)

\* The numbers of the arithmetic in [0, 1]: what an inversion can return.
UnitDoubles == {x \in 0..One : Fl(x) = x}

\* Lines 156-181: sw1 and sg1 are the results of the two calls of satFromPc,
\* swsum is what satFromSumOfPcs returns if it is called.
CellSaturations(sw1, sg1, swsum) ==
    LET overlap == Fl(sg1 + sw1) > One
        sw == IF overlap THEN swsum ELSE sw1
        sg == IF overlap THEN Fl(One - sw) ELSE sg1
    IN  [status |-> "stored", overlap |-> overlap, sw |-> sw, sg |-> sg,
         so |-> Fl(Fl(One - sw) - sg)]

InitFl ==
    /\ \E sw1 \in UnitDoubles, sg1 \in UnitDoubles, swsum \in UnitDoubles :
          sin = [sw1 |-> sw1, sg1 |-> sg1, swsum |-> swsum]
    /\ sout = Idle
    /\ props = [swco |-> 0, pu |-> [ph \in PhaseSet |-> TRUE]]
    /\ deck = [hasEQUIL |-> FALSE, EQUIL |-> <<>>, hasEQLNUM |-> FALSE,
               EQLNUM |-> <<>>]
    /\ G = [number_of_cells |-> 1]
    /\ pc = "off"
    /\ r = 0
    /\ rec = <<>>
    /\ eqlmap = <<>>
    /\ pp_ = <<>>
    /\ sat_ = <<>>
    /\ wrP = <<>>
    /\ wrS = <<>>
    /\ local = NoLocal
    /\ par = NoPar
    /\ vel = NoVel
    /\ st = NoStart

\* One pass of the cell loop.
StoreCellSaturations ==
    /\ sout = Idle
    /\ sout' = CellSaturations(sin.sw1, sin.sg1, sin.swsum)
    /\ UNCHANGED <<deck, G, props, pc, r, rec, eqlmap, pp_, sat_, wrP, wrS,
                   local, sin, aux>>

NextFl == StoreCellSaturations

SpecFl == InitFl /\ [][NextFl]_vars

\* ============================================================ claims
\* The saturation of phase ph stored for local cell i (1-based) in a
\* saturation matrix; an inactive phase counts as 0.
SatOf(mat, pu, ph, i) ==
    IF pu[ph] THEN mat[PhasePos(pu, ph) + 1][i] ELSE 0

Returned == sout.status = "returned"

LocalCells == 1..Len(sin.cells)

\* The pressure of phase ph handed in for local cell i.
InPress(ph, i) == sin.press[PhasePos(props.pu, ph) + 1][i]

\* The saturations the two independent inversions give for local cell i.
IndepWater(i) ==
    satFromPc(props, "Aqua", sin.cells[i],
              InPress("Liquid", i) - InPress("Aqua", i), FALSE)

IndepGas(i) ==
    satFromPc(props, "Vapour", sin.cells[i],
              InPress("Vapour", i) - InPress("Liquid", i), TRUE)

OverlapCell(i) ==
    props.pu["Aqua"] /\ props.pu["Vapour"] /\ IndepWater(i) + IndepGas(i) > Scale

\* C1: for every cell of the region, whatever the active water/gas phases
\* and whatever the inversions return, the saturations phaseSaturations
\* returns add up to 1: s_water + s_oil + s_gas = 1, an inactive phase
\* counting as 0.
C1_SaturationsSumToOne ==
    Returned =>
        \A i \in LocalCells :
            SatOf(sout.sat, props.pu, "Aqua", i)
              + SatOf(sout.sat, props.pu, "Liquid", i)
              + SatOf(sout.sat, props.pu, "Vapour", i) = Scale

\* A region of two cells with all three phases active where one cell holds
\* water, oil and no gas in part and the other is resolved by the overlap
\* correction.
C1_Witness ==
    /\ Returned
    /\ props.pu["Aqua"] /\ props.pu["Vapour"]
    /\ Len(sin.cells) = 2
    /\ \E i \in LocalCells :
          /\ SatOf(sout.sat, props.pu, "Liquid", i) > 0
          /\ SatOf(sout.sat, props.pu, "Aqua", i) > 0
    /\ \E i \in LocalCells : OverlapCell(i)

\* C2: when water and gas are both active and the independent inversions
\* of a cell give s_water + s_gas > 1, the stored water saturation is the
\* solution of the combined gas-water equation at the target p_gas - p_water
\* (and that inversion was called with this target), the stored gas
\* saturation is 1 - s_water, the two add up to 1 and the oil saturation
\* is 0.
C2_OverlapCorrection ==
    Returned =>
        \A i \in LocalCells :
            OverlapCell(i) =>
                LET pcgw == InPress("Vapour", i) - InPress("Aqua", i)
                    sw   == SatOf(sout.sat, props.pu, "Aqua", i)
                    sg   == SatOf(sout.sat, props.pu, "Vapour", i)
                IN  /\ sw = satFromSumOfPcs(props, "Aqua", "Vapour",
                                            sin.cells[i], pcgw)
                    /\ sg = Scale - sw
                    /\ sw + sg = Scale
                    /\ SatOf(sout.sat, props.pu, "Liquid", i) = 0
                    /\ \E k \in 1..Len(sout.calls) :
                          sout.calls[k] = Call("satFromSumOfPcs", "Aqua",
                                               sin.cells[i], pcgw, FALSE)

\* An overlapping cell whose stored water and gas saturations both differ
\* from the ones the independent inversions gave.
C2_Witness ==
    /\ Returned
    /\ \E i \in LocalCells :
          /\ OverlapCell(i)
          /\ SatOf(sout.sat, props.pu, "Aqua", i) # IndepWater(i)
          /\ SatOf(sout.sat, props.pu, "Vapour", i) # IndepGas(i)

Called == sout.status # "idle"

RecordInOilZone(rc) ==
    rc.goc.depth <= rc.main.depth /\ rc.main.depth <= rc.woc.depth

\* C3: for a record that violates
\* gas-oil contact depth <= datum depth <= water-oil contact depth,
\* phaseSaturations throws, has inverted no capillary pressure and returns
\* no saturations; a record that satisfies it, equality included, does not
\* make it throw the datum error.
C3_DatumOutsideOilZoneIsFatal ==
    Called =>
        IF RecordInOilZone(sin.rec)
        THEN ~(sout.status = "threw" /\ sout.what = "datum")
        ELSE sout = Threw("datum")

\* The datum error has been thrown for a datum above the gas-oil contact
\* although oil is active.
C3_Witness ==
    /\ sout = Threw("datum")
    /\ sin.rec.goc.depth > sin.rec.main.depth
    /\ props.pu["Liquid"]

\* C4: with the oil phase inactive phaseSaturations throws, whatever the
\* water and gas activity, and has then inverted no capillary pressure and
\* computed no saturation.
C4_OilInactiveIsFatal ==
    (Called /\ ~props.pu["Liquid"]) =>
        /\ sout.status = "threw"
        /\ sout.calls = <<>>
        /\ sout.sat = <<>>

\* The gas-water combination, with a well-formed record, has been rejected.
C4_Witness ==
    /\ sout = Threw("no_oil")
    /\ props.pu["Aqua"] /\ props.pu["Vapour"]
    /\ RecordInOilZone(sin.rec)

\* ---------------------------------------------------------- the driver
AllCells == 1..G.number_of_cells

Mapped == eqlmap # <<>>

\* C5: no scatter of a region writes a global slot of a cell of another
\* region, and once the driver has processed all regions every global slot
\* of the pressure array and of the saturation array has been written by
\* exactly one region, the one its cell is assigned to.
C5_EachSlotWrittenByItsRegion ==
    \A c \in AllCells :
        /\ (wrP[c] \cup wrS[c]) \subseteq (IF Mapped THEN {eqlmap[c]} ELSE {})
        /\ pc = "done" => (wrP[c] = {eqlmap[c]} /\ wrS[c] = {eqlmap[c]})

\* The driver is done with a grid of three cells in two regions that
\* interleave (cells 0 and 2 in one region, cell 1 in the other).
C5_Witness ==
    /\ pc = "done"
    /\ G.number_of_cells = 3
    /\ eqlmap[1] = eqlmap[3]
    /\ eqlmap[1] # eqlmap[2]

\* A pass of a region loop has just ended (only the passes advance r).
PassDone == r' = r + 1

\* C6: in every pass of the region loops, entry i of row p of the
\* region-local pressures (and, in calcSat, saturations) is stored in row p
\* of the global array at the slot of the i-th cell of the region's
\* CellRange, and every slot that is not a cell of the range keeps its
\* value.
C6_ScatterFollowsCellRange ==
    [][PassDone =>
        LET cells == Cells(eqlmap, r)
        IN  /\ local'.r = r /\ local'.cells = cells
            /\ \A p \in 1..numPhases(props) :
                  /\ \A i \in 1..Len(cells) :
                        /\ pp_'[p][cells[i] + 1] = local'.press[p][i]
                        /\ pc = "calcSat" =>
                              sat_'[p][cells[i] + 1] = local'.sat[p][i]
                  /\ \A c \in AllCells :
                        (c - 1) \notin Range(cells) =>
                            /\ pp_'[p][c] = pp_[p][c]
                            /\ sat_'[p][c] = sat_[p][c]
                  /\ pc = "calcPressII" => sat_'[p] = sat_[p]]_vars

\* A calcSat pass has scattered, for at least two phases, the results of a
\* region whose cells are 0 and 2, or start at cell 1: the global slot
\* differs from the local position.
C6_Witness ==
    /\ pc = "calcSat"
    /\ local.r = r - 1
    /\ local.sat # <<>>
    /\ numPhases(props) >= 2
    /\ local.cells \in {<<0, 2>>, <<1, 2>>}
    /\ \E p \in 1..numPhases(props) :
          local.press[p][1] # local.press[p][2]

\* C7: the constructor completes only if the deck has equilibration data,
\* oil is active and the record of every region lies with its datum in the
\* oil zone; when it fails, no pressure and no saturation array is left to
\* observe, whatever earlier regions had scattered.
C7_FatalAbortsWholePass ==
    /\ pc = "done" =>
          /\ deck.hasEQUIL
          /\ props.pu["Liquid"]
          /\ \A reg \in 0..(numRegions(eqlmap) - 1) :
                reg < Len(rec) => RecordInOilZone(rec[reg + 1])
    /\ pc = "failed" => (pp_ = <<>> /\ sat_ = <<>>)

\* The constructor failed in a later region, after the saturations of an
\* earlier region had been scattered.
C7_Witness ==
    /\ pc = "failed"
    /\ \E c \in AllCells : wrS[c] # {}

\* C8: the pass ends in results only if every region 0..numRegions()-1 has
\* a record in the list and that record has its datum in the oil zone.
C8_MissingOrMalformedRecordIsFatal ==
    pc = "done" =>
        /\ numRegions(eqlmap) <= Len(rec)
        /\ \A reg \in 0..(numRegions(eqlmap) - 1) :
              RecordInOilZone(rec[reg + 1])

\* C9: without an EQUIL field getEquil throws: the constructor fails, no
\* region is processed and no slot is written; with the field there is one
\* record per line, in the order of the lines, with the line's datum depth
\* and pressure, water-oil contact depth and capillary pressure and gas-oil
\* contact depth and capillary pressure.
C9_GetEquil ==
    pc # "getEquil" =>
        IF deck.hasEQUIL
        THEN /\ Len(rec) = Len(deck.EQUIL)
             /\ \A k \in 1..Len(rec) :
                   /\ rec[k].main.depth = deck.EQUIL[k].datum_depth_
                   /\ rec[k].main.press = deck.EQUIL[k].datum_depth_pressure_
                   /\ rec[k].woc.depth = deck.EQUIL[k].water_oil_contact_depth_
                   /\ rec[k].woc.press = deck.EQUIL[k].oil_water_cap_pressure_
                   /\ rec[k].goc.depth = deck.EQUIL[k].gas_oil_contact_depth_
                   /\ rec[k].goc.press = deck.EQUIL[k].gas_oil_cap_pressure_
        ELSE /\ pc = "failed"
             /\ rec = <<>>
             /\ local = NoLocal
             /\ \A c \in AllCells : wrP[c] = {} /\ wrS[c] = {}

\* getEquil has thrown for a deck without EQUIL on a grid of several cells.
C9_Witness ==
    /\ ~deck.hasEQUIL
    /\ pc = "failed"
    /\ G.number_of_cells > 1

\* C10: without EQLNUM every cell of the grid is in region 0: the mapping
\* has number_of_cells entries, all 0, there is one region and its cells are
\* all the cells; a supplied EQLNUM is the mapping as it stands.
C10_Equilnum ==
    Mapped =>
        IF deck.hasEQLNUM
        THEN eqlmap = deck.EQLNUM
        ELSE /\ Len(eqlmap) = G.number_of_cells
             /\ \A c \in AllCells : eqlmap[c] = 0
             /\ numRegions(eqlmap) = 1
             /\ Cells(eqlmap, 0) = [i \in AllCells |-> i - 1]

\* The default mapping has been built for a grid of several cells.
C10_Witness ==
    /\ Mapped
    /\ ~deck.hasEQLNUM
    /\ G.number_of_cells > 1

\* ------------------------------------------- the pipelines side by side
\* The arrays the region-after-region loop of calcSat leaves when it starts
\* from the arrays at the fork and binds each region as its pipeline did.
SeqOutcome ==
    SeqCalcSat([status |-> "returned", pp |-> par.at[1], sat |-> par.at[2]],
               0, eqlmap, G, props,
               [i \in 1..Len(par.regs) |-> par.regs[i].eqreg])

\* C11: when the pipelines of the regions run side by side, their stores
\* interleaved in any order and without locks, the whole-grid pressure and
\* saturation arrays they leave are the ones the loop leaves when it runs
\* region after region in region order; and at no time has a slot been
\* written by a region other than the one of its cell.
C11_ConcurrentEqualsSequential ==
    /\ (pc = "done" /\ par # NoPar) =>
          /\ SeqOutcome.status = "returned"
          /\ pp_ = SeqOutcome.pp
          /\ sat_ = SeqOutcome.sat
    /\ \A c \in AllCells :
          (wrP[c] \cup wrS[c]) \subseteq (IF Mapped THEN {eqlmap[c]} ELSE {})

\* The pipelines of two regions whose cells interleave have finished, and
\* one of them stored while the other was in the middle of its stores.
C11_Witness ==
    /\ pc = "done"
    /\ par.mixed
    /\ G.number_of_cells = 3
    /\ eqlmap[1] = eqlmap[3]
    /\ eqlmap[1] # eqlmap[2]
    /\ numPhases(props) >= 2

\* ------------------------------------------------ order of the passes
\* The saturations the cell loop of the resolver gives for the cells and
\* the pressures press.
ResolvedFrom(cells, press) ==
    SatLoop(EqReg(NoInput.rec, 0, props.pu), cells, props, press, 0,
            [sat |-> press, calls |-> <<>>]).sat

\* The pressures stored for the global cell slot c (1-based here), as the
\* pressure rows of a region of that one cell.
StoredPress(c) == [p \in 1..numPhases(props) |-> <<pp_[p][c]>>]

\* C12: the saturations of a region are the ones resolved from the
\* pressures integrated in the same pass for that region; no slot holds a
\* scattered saturation of a region before the pressures of that region have
\* been scattered to it, and none at all while the pressure pass runs; once
\* the constructor has returned, the saturation stored for every cell is
\* the one resolved from the pressures stored for that cell.
C12_PressuresThenSaturations ==
    /\ local.sat # <<>> => local.sat = ResolvedFrom(local.cells, local.press)
    /\ \A c \in AllCells : wrS[c] \subseteq wrP[c]
    /\ pc \in {"getEquil", "equilnum", "calcPressII"} =>
          \A c \in AllCells : wrS[c] = {}
    /\ pc = "done" =>
          \A c \in AllCells : \A p \in 1..numPhases(props) :
              sat_[p][c] = ResolvedFrom(<<c - 1>>, StoredPress(c))[p][1]

\* The constructor has returned for two regions and three phases, and the
\* stored water saturations differ from cell to cell.
C12_Witness ==
    /\ pc = "done"
    /\ numRegions(eqlmap) = 2
    /\ numPhases(props) = 3
    /\ \E c, d \in AllCells :
          /\ eqlmap[c] # eqlmap[d]
          /\ sat_[1][c] # sat_[1][d]

\* ------------------------------------------------ shape of the results
ActivePhases == {ph \in PhaseSet : props.pu[ph]}

\* The region of the global cell slot c (1-based here), bound as the passes
\* bind it when it has a record.
RegionOfSlot(c) ==
    EqReg(rec[eqlmap[c] + 1], Cells(eqlmap, eqlmap[c])[1], props.pu)

\* C13: once the constructor has returned, press() and saturation() each
\* hold one row per active phase and no other (numPhases rows, the row of
\* an active phase at its compact position), every row has number_of_cells
\* entries, and the entry at a global cell id is the value of that cell:
\* the pressure of the row's phase at the depth of that cell.
C13_ShapeOfResults ==
    pc = "done" =>
        /\ Len(pp_) = Cardinality(ActivePhases)
        /\ Len(sat_) = Cardinality(ActivePhases)
        /\ Len(pp_) = numPhases(props)
        /\ \A ph \in ActivePhases : PhasePos(props.pu, ph) + 1 \in 1..Len(pp_)
        /\ \A p \in 1..Len(pp_) :
              /\ Len(pp_[p]) = G.number_of_cells
              /\ Len(sat_[p]) = G.number_of_cells
              /\ \A c \in AllCells :
                    eqlmap[c] < Len(rec) =>
                        pp_[p][c] = PhasePress(RegionOfSlot(c),
                                               PhaseAt(props.pu, p - 1),
                                               CellDepth(G, c - 1))

\* The constructor has returned with one phase inactive on a grid of three
\* cells in two regions.
C13_Witness ==
    /\ pc = "done"
    /\ Cardinality(ActivePhases) = 2
    /\ G.number_of_cells = 3
    /\ numRegions(eqlmap) = 2
    /\ Len(pp_) = 2

\* ------------------------------------------- saturations and their range
\* C14: for every cell and every active phase, the saturation
\* phaseSaturations returns lies in the range [s_min, s_max] the property
\* model gives for that phase in that cell, the oil saturation obtained by
\* closure and the water and gas saturations of the overlap correction
\* included.
C14_SaturationsWithinRange ==
    Returned =>
        \A i \in LocalCells : \A ph \in PhaseSet :
            props.pu[ph] =>
                /\ SMin(props, ph, sin.cells[i]) <= SatOf(sout.sat, props.pu, ph, i)
                /\ SatOf(sout.sat, props.pu, ph, i) <= SMax(props, ph, sin.cells[i])

\* ------------------------------------------- alignment with the pressures
\* The water and gas saturations of local cell i as the procedure of the
\* resolver gives them from the pressures of entry i and the cell
\* sin.cells[i]: sw1 and sg1 are what the independent inversions give.
ExpectedWater(i, sw1, sg1) ==
    IF ~props.pu["Aqua"] THEN 0
    ELSE IF props.pu["Vapour"] /\ sw1 + sg1 > Scale
    THEN satFromSumOfPcs(props, "Aqua", "Vapour", sin.cells[i],
                         InPress("Vapour", i) - InPress("Aqua", i))
    ELSE sw1

ExpectedGas(i, sw1, sg1, ew) ==
    IF ~props.pu["Vapour"] THEN 0
    ELSE IF props.pu["Aqua"] /\ sw1 + sg1 > Scale THEN Scale - ew
    ELSE sg1

\* C15: the saturations phaseSaturations returns have as many phase rows
\* as the pressures handed in, every row has as many entries as the
\* pressure rows and as the CellRange has cells, and entry i of every row
\* is the saturation of the i-th cell of the range, resolved from entry i
\* of the pressure rows.
C15_SaturationsAlignedWithPressures ==
    Returned =>
        /\ Len(sout.sat) = Len(sin.press)
        /\ \A p \in 1..Len(sout.sat) :
              /\ Len(sout.sat[p]) = Len(sin.press[p])
              /\ Len(sout.sat[p]) = Len(sin.cells)
        /\ \A i \in LocalCells :
              LET sw1 == IndepWater(i)
                  sg1 == IndepGas(i)
                  ew  == ExpectedWater(i, sw1, sg1)
                  eg  == ExpectedGas(i, sw1, sg1, ew)
              IN  /\ SatOf(sout.sat, props.pu, "Aqua", i) = ew
                  /\ SatOf(sout.sat, props.pu, "Vapour", i) = eg
                  /\ SatOf(sout.sat, props.pu, "Liquid", i) = Scale - ew - eg

\* Two cells with the same capillary pressures and different water ranges
\* have been resolved to different water saturations.
C15_Witness ==
    /\ Returned
    /\ Len(sin.cells) = 2
    /\ numPhases(props) = 3
    /\ InPress("Liquid", 1) - InPress("Aqua", 1)
          = InPress("Liquid", 2) - InPress("Aqua", 2)
    /\ SatOf(sout.sat, props.pu, "Aqua", 1) # SatOf(sout.sat, props.pu, "Aqua", 2)

\* ------------------------------------------- the inversions called
CallsOf(ph, i) ==
    {k \in 1..Len(sout.calls) :
        /\ sout.calls[k].fn = "satFromPc"
        /\ sout.calls[k].phase = ph
        /\ sout.calls[k].cell = sin.cells[i]}

\* C16: for each cell, with water active the water-oil curve is inverted
\* once, at the target p_oil - p_water and as a decreasing curve, and with
\* gas active the gas-oil curve is inverted once, at the target
\* p_gas - p_oil and as an increasing curve; unless the overlap correction
\* replaces them, the stored water and gas saturations are the results of
\* these inversions; for an inactive water (gas) phase nothing is inverted
\* and its saturation counts as 0 in the closure.
C16_InversionTargetsAndDirections ==
    Returned =>
        \A i \in LocalCells :
          LET sw1 == IndepWater(i)
              sg1 == IndepGas(i)
              ov  == props.pu["Aqua"] /\ props.pu["Vapour"] /\ sw1 + sg1 > Scale
          IN
            /\ IF props.pu["Aqua"]
               THEN /\ Cardinality(CallsOf("Aqua", i)) = 1
                    /\ \A k \in CallsOf("Aqua", i) :
                          /\ sout.calls[k].target
                                = InPress("Liquid", i) - InPress("Aqua", i)
                          /\ sout.calls[k].increasing = FALSE
                    /\ ~ov => SatOf(sout.sat, props.pu, "Aqua", i) = sw1
               ELSE /\ \A k \in 1..Len(sout.calls) : sout.calls[k].phase # "Aqua"
                    /\ SatOf(sout.sat, props.pu, "Liquid", i)
                          = Scale - SatOf(sout.sat, props.pu, "Vapour", i)
            /\ IF props.pu["Vapour"]
               THEN /\ Cardinality(CallsOf("Vapour", i)) = 1
                    /\ \A k \in CallsOf("Vapour", i) :
                          /\ sout.calls[k].target
                                = InPress("Vapour", i) - InPress("Liquid", i)
                          /\ sout.calls[k].increasing = TRUE
                    /\ ~ov => SatOf(sout.sat, props.pu, "Vapour", i) = sg1
               ELSE /\ \A k \in 1..Len(sout.calls) : sout.calls[k].phase # "Vapour"
                    /\ SatOf(sout.sat, props.pu, "Liquid", i)
                          = Scale - SatOf(sout.sat, props.pu, "Aqua", i)

\* Oil and gas without water: a cell has been resolved to gas and oil in
\* part from a positive p_gas - p_oil.
C16_Witness ==
    /\ Returned
    /\ ~props.pu["Aqua"] /\ props.pu["Vapour"]
    /\ \E i \in LocalCells :
          /\ InPress("Vapour", i) - InPress("Liquid", i) > 0
          /\ SatOf(sout.sat, props.pu, "Vapour", i) > 0
          /\ SatOf(sout.sat, props.pu, "Liquid", i) > 0

\* ------------------------------------------------------------ pure oil
\* C17: with oil the only active phase and the datum in the oil zone,
\* phaseSaturations returns; it returns one row, the oil saturation 1 for
\* every cell of the region, and has called no capillary-pressure
\* inversion.
C17_PureOil ==
    (Called /\ props.pu = [ph \in PhaseSet |-> ph = "Liquid"]
            /\ RecordInOilZone(sin.rec)) =>
        /\ Returned
        /\ Len(sout.sat) = 1
        /\ Len(sout.sat[1]) = Len(sin.cells)
        /\ \A i \in LocalCells : sout.sat[1][i] = Scale
        /\ sout.calls = <<>>

\* The pure-oil case has been resolved for a region of two cells.
C17_Witness ==
    /\ Returned
    /\ props.pu = [ph \in PhaseSet |-> ph = "Liquid"]
    /\ Len(sin.cells) = 2
    /\ sout.sat = <<<<Scale, Scale>>>>

Formulations == {vw, vn, vt}

\* C19: an FVVelocity2P object exists only with a velocity formulation out
\* of wetting, nonwetting and total, and not with total together with
\* compressibility; either constructor throws NotImplemented exactly when
\* the formulation is none of the three or is total with compressibility
\* enabled, and the formulation never changes.
C19_ValidatedVelocityFormulation ==
    /\ vel.status \in {"constructed", "NotImplemented"} =>
          (vel.status = "NotImplemented"
              <=> \/ vel.velocityType_ \notin Formulations
                  \/ (vel.velocityType_ = vt /\ vel.EnableCompressibility))
    /\ vel.status = "constructed" => vel.velocityType_ \in Formulations

\* The simulator object of start() exists or has existed.
SimulatorStarted == st.sim \in {"constructed", "ran", "destroyed"}

SetupSucceeded == st.paramStatus = <<0>>

SetupFailed ==
    /\ st.pc = "returned"
    /\ st.paramStatus = <<1>>

Mandatory == {"EndTime", "InitialTimeStepSize"}

\* Setup succeeded and a mandatory parameter is neither on the command line
\* nor in the parameter file.
MandatoryMissing ==
    /\ st.pc = "returned"
    /\ SetupSucceeded
    /\ \E n \in Mandatory : st.tree[n] = <<>>

\* The simulator is constructed only after setup succeeded with both
\* mandatory parameters specified; the usage message is on rank 0 only.
SimulatorOnlyAfterSetup ==
    /\ SimulatorStarted =>
           (SetupSucceeded /\ \A n \in Mandatory : st.tree[n] # <<>>)
    /\ "usage" \in Range(st.out) => st.rank = 0

\* C21 as stated: the simulator is constructed and run only after setup
\* succeeded with both mandatory parameters specified; if setup fails or a
\* mandatory parameter is missing, start() returns 1 without a simulator,
\* and the usage message is printed on rank 0 only.
C21_AsStated ==
    /\ SimulatorOnlyAfterSetup
    /\ (SetupFailed \/ MandatoryMissing) =>
           (st.ret = <<1>> /\ st.sim = "none")

\* C21, amended: as stated, but when ThreadManager::init() throws (line 244,
\* before the mandatory parameters are read) the status is that of the
\* handler which caught it, 1, 2 or 3; there is still no simulator.
C21_SimulatorOnlyAfterSetup ==
    /\ SimulatorOnlyAfterSetup
    /\ (SetupFailed \/ MandatoryMissing) =>
           /\ st.sim = "none"
           /\ st.thrown = <<>> => st.ret = <<1>>
           /\ st.thrown # <<>> =>
                  (SetupSucceeded /\ st.ret \in {<<1>>, <<2>>, <<3>>})

\* Rank 0, the end time given and the initial time step size missing:
\* usage message, status 1, no simulator.
C21_Witness ==
    /\ st.pc = "returned"
    /\ st.rank = 0
    /\ st.tree["EndTime"] = <<1>>
    /\ st.tree["InitialTimeStepSize"] = <<>>
    /\ st.thrown = <<>>
    /\ st.out = <<"usage">>
    /\ st.ret = <<1>>
    /\ st.sim = "none"

\* The combined gas-water inversions called for local cell i.
SumCallsOf(i) ==
    {k \in 1..Len(sout.calls) :
        /\ sout.calls[k].fn = "satFromSumOfPcs"
        /\ sout.calls[k].cell = sin.cells[i]}

\* C22: the overlap correction is applied only when s_water + s_gas is
\* strictly greater than 1: for a cell with water and gas active whose
\* independently inverted saturations add up to 1 or less, the combined
\* gas-water inversion is not called and the independently inverted
\* s_water and s_gas are stored unchanged.
C22_OverlapOnlyAboveOne ==
    (Returned /\ props.pu["Aqua"] /\ props.pu["Vapour"]) =>
        \A i \in LocalCells :
            LET sw == IndepWater(i)
                sg == IndepGas(i)
            IN  /\ SumCallsOf(i) # {} => sw + sg > Scale
                /\ sw + sg <= Scale =>
                       /\ SumCallsOf(i) = {}
                       /\ SatOf(sout.sat, props.pu, "Aqua", i) = sw
                       /\ SatOf(sout.sat, props.pu, "Vapour", i) = sg

\* A cell whose independently inverted water and gas saturations are both
\* positive and add up to exactly 1; no oil is left and nothing is
\* recomputed.
C22_Witness ==
    /\ Returned
    /\ props.pu["Aqua"] /\ props.pu["Vapour"]
    /\ \E i \in LocalCells :
          /\ IndepWater(i) > 0
          /\ IndepGas(i) > 0
          /\ IndepWater(i) + IndepGas(i) = Scale
          /\ SumCallsOf(i) = {}
          /\ SatOf(sout.sat, props.pu, "Aqua", i) = IndepWater(i)
          /\ SatOf(sout.sat, props.pu, "Vapour", i) = IndepGas(i)
          /\ SatOf(sout.sat, props.pu, "Liquid", i) = 0

\* The handler invocations in progress, as <<thread, position>>.
Frames == {<<t, k>> \in (1..MaxThreads) \X (1..(2 * MaxArrivals)) :
              t \in Threads /\ k <= Len(st.stack[t])}

\* C23: resetTerminal_ restores the default handler of its signal before
\* anything else and re-raises the signal as its last step, also when
\* 'stty sane' failed; so its body runs at most once per installed signal
\* and the re-raised signal gets the default action, not resetTerminal_.
C23_HandlerOncePerSignal ==
    /\ \A f \in Frames :
          LET fr == st.stack[f[1]][f[2]]
          IN  /\ fr.pc # "entry" => fr.sig \notin st.handlers
              /\ fr.pc = "raised" => fr.sig \in st.raised
    /\ \A sig \in Signals : st.runs[sig] <= 1
    /\ \A sig \in st.raised : sig \notin st.handlers

\* setupParameters_ has read a parameter file.
FileRead ==
    /\ SetupSucceeded
    /\ st.argv.params.ParameterFile = <<"readable">>

\* C24: the command line is parsed before the parameter file is read and
\* the file is read without overwriting: a parameter given on the command
\* line and in the file has the command line's value afterwards, one given
\* only in the file has the file's value.
C24_CommandLineBeforeFile ==
    /\ st.pc = "file" => st.tree = st.argv.params
    /\ FileRead =>
          \A n \in ParamNames :
              /\ st.argv.params[n] # <<>> => st.tree[n] = st.argv.params[n]
              /\ (st.argv.params[n] = <<>> /\ st.file[n] # <<>>) =>
                     st.tree[n] = st.file[n]

\* The end time is on the command line and, with another value, in the
\* file; the initial time step size is in the file only.
C24_Witness ==
    /\ FileRead
    /\ st.argv.params["EndTime"] = <<1>>
    /\ st.file["EndTime"] = <<2>>
    /\ st.tree["EndTime"] = <<1>>
    /\ st.argv.params["InitialTimeStepSize"] = <<>>
    /\ st.file["InitialTimeStepSize"] = <<2>>
    /\ st.tree["InitialTimeStepSize"] = <<2>>

\* The thrown object e is a std::exception: from Dune 2.5 on a
\* Dune::Exception is one.
IsStdException(e) ==
    e = "std::exception" \/ (e = "Dune::Exception" /\ st.DuneNewer25)

\* What the thrown objects have in common in both statements of C25: every
\* one is caught and start() returns; status 0 only after simulator.run()
\* returned; status 1 for a std::exception; setupParameters_ returns 0 or 1.
StatusOfStart ==
    /\ st.thrown # <<>> => st.pc = "returned"
    /\ st.pc = "returned" => st.ret \in {<<0>>, <<1>>, <<2>>, <<3>>}
    /\ st.ret = <<0>> => (st.sim = "ran" /\ st.thrown = <<>>)
    /\ st.paramStatus \in {<<>>, <<0>>, <<1>>}
    /\ \A e \in Thrown :
          (st.thrown = <<e>> /\ IsStdException(e)) => st.ret = <<1>>

\* C25 as stated: no exception escapes start(); it returns 0 only if
\* simulator.run() returned normally, 1 for a std::exception, 3 for any
\* other thrown object; setupParameters_ never returns 2.
C25_AsStated ==
    /\ StatusOfStart
    /\ \A e \in Thrown :
          (st.thrown = <<e>> /\ ~IsStdException(e)) => st.ret = <<3>>

\* C25, amended: as stated, but a thrown Dune::Exception that is not a
\* std::exception (Dune before 2.5) gives status 2; only the remaining
\* objects give 3.
C25_StatusOfStart ==
    /\ StatusOfStart
    /\ \A e \in Thrown :
          (st.thrown = <<e>> /\ ~IsStdException(e)) =>
              st.ret = IF e = "Dune::Exception" THEN <<2>> ELSE <<3>>

\* simulator.run() throws a Dune::Exception in a build with Dune before
\* 2.5: rank 0 reports it and start() returns 2.
C25_Witness ==
    /\ st.pc = "returned"
    /\ st.rank = 0
    /\ ~st.DuneNewer25
    /\ st.sim = "destroyed"
    /\ st.thrown = <<"Dune::Exception">>
    /\ st.ret = <<2>>
    /\ st.out[Len(st.out)] = "dune error"

\* C26: with every inverted water and gas saturation in [0, 1], the oil
\* saturation stored for a cell lies in [0, 1]: it is not negative on the
\* path without overlap correction and it is 0 on the path with it.
C26_OilSaturationInUnitInterval ==
    sout.status = "stored" =>
        /\ 0 <= sout.so /\ sout.so <= One
        /\ sout.overlap => sout.so = 0

\* The driver is at the head of a pass of one of its region loops and is
\* about to read the representative cell of region r.
AtRegionPass == pc \in {"calcPressII", "calcSat"} /\ r < numRegions(eqlmap)

\* C27: for every region id r in 0..numRegions()-1 the driver processes,
\* the CellRange of r is not empty when the driver reads its representative
\* cell, also for assignments that skip a region id, and the representative
\* cell is a cell of region r.
C27_RepresentativeCellOfRegion ==
    AtRegionPass =>
        /\ Len(Cells(eqlmap, r)) > 0
        /\ \A repcell \in RepCells(G, Cells(eqlmap, r)) :
              eqlmap[repcell + 1] = r

\* The cells the region mapping enumerates over all its regions.
EnumeratedCells ==
    UNION {Range(Cells(eqlmap, reg)) : reg \in 0..(numRegions(eqlmap) - 1)}

GridCells == 0..(G.number_of_cells - 1)

\* C28: every global index the driver writes during scatter lies in
\* [0, number_of_cells) and the cells enumerated over all regions are
\* exactly the cells of the grid, for a supplied region assignment, whose
\* length is the deck's, as for the default one.
C28_ScatterWithinGrid ==
    /\ local.r >= 0 => ScatterSlots(local.cells) \subseteq GridCells
    /\ eqlmap # <<>> => EnumeratedCells = GridCells

\* C29: the pressures are computed and scattered twice, in calcPressII and
\* again region by region in calcSat; the second pass is idempotent: no
\* pass of calcSat changes a slot of the whole-grid pressure array, so the
\* array after calcSat is the array after calcPressII.
C29_SecondPassIdempotent ==
    [][(pc = "calcSat" /\ pc' \in {"calcSat", "done"}) => pp_' = pp_]_vars

====
